---- MODULE Spec2Model ----
(***************************************************************************)
(* A model of sbom-manager's versioned record store (sbom_manager/db.py,   *)
(* class SBOMDB) as one store object used sequentially.                    *)
(*                                                                         *)
(* Text values that the code transforms or compares character by character *)
(* (project, vendor, product, version, the search text) are sequences of   *)
(* one-character strings; values the code only copies (filename,           *)
(* description, sbom_type, license, audit label) are plain strings.        *)
(* The two timestamp columns (add_date, audit_date) are not modelled.      *)
(***************************************************************************)
EXTENDS Integers, Sequences, FiniteSets, TLC

\* ------------------------------------------------------------------------
\* Bounds of the model
\* ------------------------------------------------------------------------
\* largest number of file headers the connection may see
MaxFiles == 2
\* largest number of entries of the audit table
MaxAudit == 4

\* ------------------------------------------------------------------------
\* Characters and text
\* ------------------------------------------------------------------------
\* the characters used by the model, in ascending code-point order
Chars == << "%", "1", "2", "A", "B", "O", "P", "S", "W", "Z", "_",
            "a", "b", "o", "p", "s", "w", "z" >>

\* code-point rank of a character (BINARY collation of ORDER BY and =)
Ord(c) == CHOOSE i \in DOMAIN Chars : Chars[i] = c

UpperChars == << "A", "B", "O", "P", "S", "W", "Z" >>
LowerChars == << "a", "b", "o", "p", "s", "w", "z" >>

\* str.lower() on one character
LowerChar(c) ==
    IF \E i \in DOMAIN UpperChars : UpperChars[i] = c
    THEN LowerChars[CHOOSE i \in DOMAIN UpperChars : UpperChars[i] = c]
    ELSE c

\* str.lower()
Lower(s) == [i \in DOMAIN s |-> LowerChar(s[i])]

\* -1, 0, 1 as a (BINARY collation) precedes, equals, follows b
RECURSIVE CmpText(_, _)
CmpText(a, b) ==
    IF a = << >> /\ b = << >> THEN 0
    ELSE IF a = << >> THEN -1
    ELSE IF b = << >> THEN 1
    ELSE IF Ord(Head(a)) < Ord(Head(b)) THEN -1
    ELSE IF Ord(Head(a)) > Ord(Head(b)) THEN 1
    ELSE CmpText(Tail(a), Tail(b))

\* SQLite's default LIKE: % matches any run of characters, _ any one
\* character, every other character itself without regard to ASCII case
RECURSIVE Like(_, _)
Like(pat, str) ==
    IF pat = << >> THEN str = << >>
    ELSE IF Head(pat) = "%"
         THEN Like(Tail(pat), str) \/ (str # << >> /\ Like(pat, Tail(str)))
    ELSE /\ str # << >>
         /\ (Head(pat) = "_" \/ LowerChar(Head(pat)) = LowerChar(Head(str)))
         /\ Like(Tail(pat), Tail(str))

\* the value SQLite stores when an integer is bound to a TEXT column
Digits == << "0", "1", "2", "3", "4", "5", "6", "7", "8", "9" >>
TextAffinity(n) == << Digits[n + 1] >>

\* SQL NULL
Null == << "NULL" >>

\* ------------------------------------------------------------------------
\* Inputs
\* ------------------------------------------------------------------------
\* project names; = compares them exactly, so "P" and "p" are two projects
ProjP == << "P" >>
ProjQ == << "p" >>
Projects == {ProjP, ProjQ}
NoProject == << >>

\* canonical records; RecCsv is what process_csv_file builds (key "licnese")
RecSsl == [vendor |-> << "A" >>, product |-> << "O", "S" >>,
           version |-> << "1", "A" >>, license |-> "MIT"]
RecZ   == [vendor |-> << >>, product |-> << "z", "_" >>,
           version |-> << "2" >>, license |-> ""]
RecW   == [vendor |-> << "a" >>, product |-> << "W" >>,
           version |-> << "1" >>, license |-> "X"]
RecCsv == [vendor |-> << "a" >>, product |-> << "b" >>,
           version |-> << "1" >>, licnese |-> ""]

\* the documents that are ingested: arguments filename, description,
\* sbom_type and sbom_data of add_file
Docs == {
    [filename |-> "a.spdx", description |-> "d", sbom_type |-> "spdx",
     sbom_data |-> << RecSsl, RecZ >>],
    [filename |-> "b.json", description |-> "Not specified", sbom_type |-> "spdx",
     sbom_data |-> << RecZ >>],
    [filename |-> "c.csv", description |-> "d", sbom_type |-> "csv",
     sbom_data |-> << RecW, RecCsv >>] }

\* ------------------------------------------------------------------------
\* State
\* ------------------------------------------------------------------------
VARIABLES
    dbfile,      \* the file at dbpath: "absent", "empty" (no tables), "tables"
    disk,        \* committed rows of sbom_file, sbom_data and sbom_audit
    connection,  \* self.connection is not None
    txn,         \* the tables as the open connection sees them, uncommitted writes included
    exported,    \* the file written by copy_db(export=True), or NoExport
    adds,        \* per project, the add_file calls that returned since the tables were created
                 \* (counted while clean)
    clean,       \* no import since the tables were created
    last,        \* the latest call: its name, arguments and outcome
    proc,        \* per concurrent process, how far its add_file call has got
    blobs,       \* the files of the file store, as << project, version, filename >>
    source       \* the document handed to the normalizers, or NoSource

vars == << dbfile, disk, connection, txn, exported, adds, clean, last, proc,
          blobs, source >>

NoTables == [files |-> << >>, data |-> << >>, audit |-> << >>]
NoExport == [present |-> FALSE]

\* the processes that call add_file concurrently, and a process outside a call
Procs == {1, 2}
Idle == [pc |-> "idle"]

\* no document
NoSource == [exists |-> FALSE]

Init ==
    /\ dbfile = "absent"
    /\ disk = NoTables
    /\ connection = FALSE
    /\ txn = NoTables
    /\ exported = NoExport
    /\ adds = [p \in Projects |-> 0]
    /\ clean = TRUE
    /\ last = [op |-> "new", ok |-> TRUE]
    /\ proc = [p \in Procs |-> Idle]
    /\ blobs = {}
    /\ source = NoSource

\* ------------------------------------------------------------------------
\* Helpers of the operations
\* ------------------------------------------------------------------------
\* sqlite3.connect creates the file when it is missing
Connect(f) == IF f = "absent" THEN "empty" ELSE f

\* AuditInsert that replaces the one row of the table
AuditReplace(audit, command_line) == << command_line >>

\* audit_record's INSERT: a new row at the end of sbom_audit
AuditInsert(audit, command_line) == Append(audit, command_line)

\* audit_record on a closed connection: open, insert, commit, close
AuditRecord(tables, command_line) ==
    [tables EXCEPT !.audit = AuditInsert(@, command_line)]

\* the rows a closed connection discards: close() without commit rolls back
Rollback(committed) == committed

\* number of headers of a project: SELECT count(project) ... WHERE project = ?
CountProject(files, project) ==
    Cardinality({i \in DOMAIN files : files[i].project = project})

\* NewHeader with the first rowid for every header
NewHeaderFirstId(files, doc, project) ==
    [file_id      |-> 1,
     filename     |-> doc.filename,
     file_version |-> CountProject(files, project) + 1,
     project      |-> project,
     description  |-> doc.description,
     sbom_type    |-> doc.sbom_type,
     record_count |-> Null]

\* the header row add_file inserts; file_id is the next rowid, record_count
\* is not among the inserted columns
NewHeader(files, doc, project) ==
    [file_id      |-> Len(files) + 1,
     filename     |-> doc.filename,
     file_version |-> CountProject(files, project) + 1,
     project      |-> project,
     description  |-> doc.description,
     sbom_type    |-> doc.sbom_type,
     record_count |-> Null]

\* the license add_file stores for a record
StoredLicense(license) == IF license = "" THEN "NOASSERTION" ELSE license

\* NewDataRow without the calls of lower()
NewDataRowAsSupplied(file_id, data) ==
    [file_id |-> file_id,
     vendor  |-> data.vendor,
     product |-> data.product,
     version |-> data.version,
     license |-> StoredLicense(data.license)]

\* the data row add_file inserts for one record
NewDataRow(file_id, data) ==
    [file_id |-> file_id,
     vendor  |-> Lower(data.vendor),
     product |-> Lower(data.product),
     version |-> Lower(data.version),
     license |-> StoredLicense(data.license)]

\* data["license"] raises KeyError
Raises(data) == "license" \notin DOMAIN data

\* how many records the loop of add_file inserts before it ends or raises
RECURSIVE Inserted(_)
Inserted(sbom_data) ==
    IF sbom_data = << >> \/ Raises(Head(sbom_data)) THEN 0
    ELSE 1 + Inserted(Tail(sbom_data))

\* UpdateCount without the WHERE clause
UpdateCountAll(files, file_id, record_count) ==
    [i \in DOMAIN files |->
        [files[i] EXCEPT !.record_count = TextAffinity(record_count)]]

\* UPDATE sbom_file SET record_count = ? WHERE file_id = ?
UpdateCount(files, file_id, record_count) ==
    [i \in DOMAIN files |->
        IF files[i].file_id = file_id
        THEN [files[i] EXCEPT !.record_count = TextAffinity(record_count)]
        ELSE files[i]]

\* ------------------------------------------------------------------------
\* Queries
\* ------------------------------------------------------------------------
\* the argument version=None of list_entries
NoVersion == -1

\* FROM sbom_file, sbom_data WHERE sbom_file.file_id = sbom_data.file_id:
\* one row per data row that has a header, with the columns of both
Joined(tables) ==
    LET hasHeader(d) == \E i \in DOMAIN tables.files : tables.files[i].file_id = d.file_id
        headerOf(d)  == tables.files[CHOOSE i \in DOMAIN tables.files :
                                        tables.files[i].file_id = d.file_id]
        owned        == SelectSeq(tables.data, hasHeader)
    IN  [i \in DOMAIN owned |-> owned[i] @@ headerOf(owned[i])]

\* IsLatest with min in place of max
IsEarliest(files, row) ==
    LET versions == {files[i].file_version : i \in
                       {j \in DOMAIN files : files[j].project = row.project}}
    IN  /\ versions # {}
        /\ row.file_version = CHOOSE v \in versions : \A w \in versions : v <= w

\* file_version = (select max(file_version) from sbom_file where project = P)
\* with P the project of the row under test
IsLatest(files, row) ==
    LET versions == {files[i].file_version : i \in
                       {j \in DOMAIN files : files[j].project = row.project}}
    IN  /\ versions # {}
        /\ row.file_version = CHOOSE v \in versions : \A w \in versions : w <= v

\* one term of an ORDER BY: -1, 0, 1 as row a sorts before, with, after row b
CmpTerm(term, a, b) ==
    IF term = "product ASC" THEN CmpText(a.product, b.product)
    ELSE IF term = "project ASC" THEN CmpText(a.project, b.project)
    ELSE \* "file_version DESC"
         IF a.file_version > b.file_version THEN -1
         ELSE IF a.file_version < b.file_version THEN 1 ELSE 0

RECURSIVE CmpRows(_, _, _)
CmpRows(order, a, b) ==
    IF order = << >> THEN 0
    ELSE IF CmpTerm(Head(order), a, b) # 0 THEN CmpTerm(Head(order), a, b)
    ELSE CmpRows(Tail(order), a, b)

\* OrderBy without the sort: the rows in the order of the scan
OrderByScan(rows, order) == rows

\* ORDER BY: rows that compare equal keep the order of the scan
RECURSIVE OrderBy(_, _)
OrderBy(rows, order) ==
    IF rows = << >> THEN << >>
    ELSE LET front == OrderBy(SubSeq(rows, 1, Len(rows) - 1), order)
             x     == rows[Len(rows)]
             k     == Cardinality({i \in DOMAIN front : CmpRows(order, front[i], x) <= 0})
         IN  SubSeq(front, 1, k) \o << x >> \o SubSeq(front, k + 1, Len(front))

\* the ORDER BY of find_module
FindOrder == << "product ASC", "project ASC", "file_version DESC" >>

\* FindWhere without the restriction to the latest version
FindWhereAnyVersion(files, row, module, project, history) ==
    /\ Like(<< "%" >> \o module \o << "%" >>, row.product)
    /\ project # NoProject => row.project = project

\* the WHERE clause of find_module for one joined row
FindWhere(files, row, module, project, history) ==
    /\ history \/ IsLatest(files, row)
    /\ Like(<< "%" >> \o module \o << "%" >>, row.product)
    /\ project # NoProject => row.project = project

\* the columns find_module selects
FindColumns(row, history) ==
    IF history
    THEN << row.filename, row.file_version, row.project, row.description,
            row.product, row.version, row.license >>
    ELSE << row.filename, row.project, row.description,
            row.product, row.version, row.license >>

\* cursor.fetchall() of find_module
FindRows(tables, module, project, history) ==
    LET keep(row) == FindWhere(tables.files, row, module, project, history)
        rows      == OrderBy(SelectSeq(Joined(tables), keep), FindOrder)
    IN  [i \in DOMAIN rows |-> FindColumns(rows[i], history)]

\* the text list_entries appends to its query: each clause with the
\* prefix it is appended with
ListClauses(contents, project, history, version) ==
    LET prefix0 == IF contents = "sbom" THEN "WHERE" ELSE "AND"
        latest  == IF ~history /\ version = NoVersion
                   THEN << [prefix |-> prefix0, test |-> "latest"] >> ELSE << >>
        prefix1 == IF latest # << >> THEN "AND" ELSE prefix0
        proj    == IF project # NoProject
                   THEN << [prefix |-> prefix1, test |-> "project"] >> ELSE << >>
        vers    == IF version # NoVersion
                   THEN << [prefix |-> prefix1, test |-> "file_version"] >> ELSE << >>
    IN  latest \o proj \o vers

\* whether SQLite parses the query: the sbom query starts without a WHERE,
\* the two others with one
Parses(contents, clauses) ==
    \A i \in DOMAIN clauses :
        clauses[i].prefix = IF contents = "sbom" /\ i = 1 THEN "WHERE" ELSE "AND"

\* one appended clause for one row
ListTest(files, row, test, project, version) ==
    IF test = "latest" THEN IsLatest(files, row)
    ELSE IF test = "project" THEN row.project = project
    ELSE row.file_version = version

\* the ORDER BY of list_entries
ListOrder(contents) ==
    IF contents = "module"
    THEN << "product ASC", "project ASC", "file_version DESC" >>
    ELSE << "project ASC", "file_version DESC" >>

\* the columns list_entries selects (add_date left out)
ListColumns(row, contents, history) ==
    IF contents = "sbom"
    THEN IF history
         THEN << row.filename, row.file_version, row.project, row.description,
                 row.sbom_type, row.record_count >>
         ELSE << row.filename, row.project, row.description,
                 row.sbom_type, row.record_count >>
    ELSE IF contents = "module"
    THEN IF history
         THEN << row.project, row.file_version, row.product, row.version, row.license >>
         ELSE << row.project, row.product, row.version, row.license >>
    ELSE IF history
         THEN << row.filename, row.file_version, row.project, row.description,
                 row.product, row.version, row.license >>
         ELSE << row.filename, row.project, row.description,
                 row.product, row.version, row.license >>

\* cursor.fetchall() of list_entries, for a query that parses
ListRows(tables, contents, project, history, version) ==
    LET clauses   == ListClauses(contents, project, history, version)
        keep(row) == \A i \in DOMAIN clauses :
                        ListTest(tables.files, row, clauses[i].test, project, version)
        from      == IF contents = "sbom" THEN tables.files ELSE Joined(tables)
        rows      == OrderBy(SelectSeq(from, keep), ListOrder(contents))
    IN  [i \in DOMAIN rows |-> ListColumns(rows[i], contents, history)]

\* ------------------------------------------------------------------------
\* Operations
\* ------------------------------------------------------------------------
\* SBOMDB(): a new store object (a new invocation of the tool); a
\* connection the previous object left open is closed without commit
NewProcess ==
    /\ last.op # "new"
    /\ connection' = FALSE
    /\ txn' = Rollback(disk)
    /\ last' = [op |-> "new", ok |-> TRUE]
    /\ UNCHANGED << dbfile, disk, exported, adds, clean, proc, blobs, source >>

\* CreateTables without the three DROP statements
KeepTables(tables) == tables

\* the tables after the three DROP and three CREATE statements
CreateTables(tables) == NoTables

\* initialise_database()
Initialise ==
    /\ dbfile' = "tables"
    /\ disk' = AuditRecord(CreateTables(txn), "initialise")
    /\ txn' = disk'
    /\ connection' = FALSE
    /\ adds' = [p \in Projects |-> 0]
    /\ clean' = TRUE
    /\ last' = [op |-> "initialise", ok |-> TRUE]
    /\ UNCHANGED << exported, proc, blobs, source >>

\* a call that raises sqlite3.OperationalError ("no such table") on a
\* store without tables: the connection stays open, nothing is written
NoSuchTable(call) ==
    /\ dbfile # "tables"
    /\ dbfile' = Connect(dbfile)
    /\ connection' = TRUE
    /\ last' = call
    /\ UNCHANGED << disk, txn, exported, adds, clean, proc, blobs, source >>

\* add_file(filename, description, project, sbom_type, sbom_data)
AddFile(doc, project) ==
    LET header == NewHeader(txn.files, doc, project)
        n      == Inserted(doc.sbom_data)
        rows   == [i \in 1..n |-> NewDataRow(header.file_id, doc.sbom_data[i])]
        call   == [op |-> "add", project |-> project, filename |-> doc.filename]
    IN
    \/ NoSuchTable(call @@ [ok |-> FALSE])
    \/ /\ dbfile = "tables"
       /\ Len(txn.files) < MaxFiles
       /\ IF n < Len(doc.sbom_data)
          THEN \* KeyError: header and n rows stay uncommitted on the open connection
               /\ txn' = [txn EXCEPT !.files = Append(@, header),
                                     !.data = @ \o rows]
               /\ connection' = TRUE
               /\ last' = call @@ [ok |-> FALSE]
               /\ UNCHANGED << dbfile, disk, exported, adds, clean, proc, blobs, source >>
          ELSE /\ Len(disk.audit) < MaxAudit
               /\ disk' = AuditRecord(
                            [txn EXCEPT
                               !.files = UpdateCount(Append(@, header), header.file_id, n),
                               !.data = @ \o rows],
                            "add")
               /\ txn' = disk'
               /\ connection' = FALSE
               /\ adds' = IF clean THEN [adds EXCEPT ![project] = @ + 1] ELSE adds
               /\ last' = call @@ [ok |-> TRUE, result |-> header.file_version]
               /\ UNCHANGED << dbfile, exported, clean, proc, blobs, source >>

\* the search texts, projects, scopes and versions the queries are called with
Modules == { << "S" >>, << "z" >>, << "_" >>, << "%" >> }
ProjectArgs == Projects \cup {NoProject}
Contents == {"all", "sbom", "module"}
VersionArgs == (1..MaxFiles) \cup {NoVersion}

\* find_module(module, project, history)
FindModule(module, project, history) ==
    LET call == [op |-> "find", module |-> module, project |-> project,
                 history |-> history]
    IN
    \/ NoSuchTable(call @@ [ok |-> FALSE])
    \/ /\ dbfile = "tables"
       /\ Len(disk.audit) < MaxAudit
       /\ disk' = AuditRecord(disk, "find")
       /\ txn' = Rollback(disk')
       /\ connection' = FALSE
       /\ last' = call @@ [ok |-> TRUE,
                           result |-> FindRows(txn, module, project, history)]
       /\ UNCHANGED << dbfile, exported, adds, clean, proc, blobs, source >>

\* list_entries(contents, project, history, version)
ListEntries(contents, project, history, version) ==
    LET call == [op |-> "list", contents |-> contents, project |-> project,
                 history |-> history, version |-> version]
    IN
    \/ NoSuchTable(call @@ [ok |-> FALSE])
    \/ /\ dbfile = "tables"
       /\ IF Parses(contents, ListClauses(contents, project, history, version))
          THEN /\ Len(disk.audit) < MaxAudit
               /\ disk' = AuditRecord(disk, "list")
               /\ txn' = Rollback(disk')
               /\ connection' = FALSE
               /\ last' = call @@ [ok |-> TRUE,
                                   result |-> ListRows(txn, contents, project,
                                                       history, version)]
               /\ UNCHANGED << dbfile, exported, adds, clean, proc, blobs, source >>
          ELSE \* sqlite3.OperationalError (syntax error): the connection stays open
               /\ connection' = TRUE
               /\ last' = call @@ [ok |-> FALSE]
               /\ UNCHANGED << dbfile, disk, txn, exported, adds, clean, proc, blobs, source >>

\* copy_db(filename, export=True)
ExportDb ==
    LET call == [op |-> "export"]
    IN
    \/ NoSuchTable(call @@ [ok |-> FALSE])
    \/ /\ dbfile = "tables"
       /\ Len(disk.audit) < MaxAudit
       /\ disk' = AuditRecord(disk, "Export database")
       /\ txn' = Rollback(disk')
       /\ connection' = FALSE
       /\ exported' = [present |-> TRUE, tables |-> disk']
       /\ last' = call @@ [ok |-> TRUE]
       /\ UNCHANGED << dbfile, adds, clean, proc, blobs, source >>

\* copy_db(filename, export=False)
ImportDb ==
    LET call == [op |-> "import"]
    IN
    \/ NoSuchTable(call @@ [ok |-> FALSE])
    \/ /\ dbfile = "tables"
       /\ IF exported.present
          THEN /\ disk' = exported.tables
               /\ clean' = FALSE
               /\ adds' = [p \in Projects |-> 0]
               /\ last' = call @@ [ok |-> TRUE]
          ELSE \* FileNotFoundError, after the audit entry is written
               /\ Len(disk.audit) < MaxAudit
               /\ disk' = AuditRecord(disk, "Import database")
               /\ last' = call @@ [ok |-> FALSE]
               /\ UNCHANGED << clean, adds >>
       /\ txn' = Rollback(disk')
       /\ connection' = FALSE
       /\ UNCHANGED << dbfile, exported, proc, blobs, source >>

\* the store and its listing
Next ==
    \/ NewProcess
    \/ Initialise
    \/ \E doc \in Docs, project \in Projects : AddFile(doc, project)
    \/ \E contents \in Contents, project \in ProjectArgs, history \in BOOLEAN,
          version \in VersionArgs :
          ListEntries(contents, project, history, version)

Spec == Init /\ [][Next]_vars

\* the store and its search
NextFind ==
    \/ NewProcess
    \/ Initialise
    \/ \E doc \in Docs, project \in Projects : AddFile(doc, project)
    \/ \E module \in Modules, project \in ProjectArgs, history \in BOOLEAN :
          FindModule(module, project, history)

SpecFind == Init /\ [][NextFind]_vars

\* the store with its search and its listing
NextQuery ==
    \/ NewProcess
    \/ Initialise
    \/ \E doc \in Docs, project \in Projects : AddFile(doc, project)
    \/ \E module \in Modules, project \in ProjectArgs, history \in BOOLEAN :
          FindModule(module, project, history)
    \/ \E contents \in Contents, project \in ProjectArgs, history \in BOOLEAN,
          version \in {NoVersion, 1} :
          ListEntries(contents, project, history, version)

SpecQuery == Init /\ [][NextQuery]_vars

\* the store with its export and import: one project, and each query
\* called with one set of arguments
NextCopy ==
    \/ NewProcess
    \/ Initialise
    \/ \E doc \in Docs : AddFile(doc, ProjP)
    \/ FindModule(<< "S" >>, NoProject, FALSE)
    \/ ListEntries("all", NoProject, FALSE, NoVersion)
    \/ ExportDb
    \/ ImportDb

SpecCopy == Init /\ [][NextCopy]_vars

\* ------------------------------------------------------------------------
\* add_file called by several processes on the same database file; each
\* process has a connection of its own, which reads the committed rows
\* ------------------------------------------------------------------------
\* the write lock of the database file is held by a process that has
\* inserted and not yet committed
WriteLocked == \E q \in Procs : proc[q].pc = "inserted"

\* RaceHeader with the count taken again at the insert
RaceHeaderRecount(files, doc, project, count) == NewHeader(files, doc, project)

\* the header row insert_file adds: file_version is file_version[0]+1 of
\* the count query that the call ran before
RaceHeader(files, doc, project, count) ==
    [NewHeader(files, doc, project) EXCEPT !.file_version = count + 1]

\* add_file up to file_version = cursor.fetchone(): the count query, which
\* takes no lock that outlasts it
RaceCount(p, doc, project) ==
    /\ dbfile = "tables"
    /\ proc[p].pc = "idle"
    /\ proc' = [proc EXCEPT ![p] = [pc |-> "counted", doc |-> doc, project |-> project,
                                    count |-> CountProject(disk.files, project)]]
    /\ UNCHANGED << dbfile, disk, connection, txn, exported, adds, clean, last,
                   blobs, source >>

\* the header insert begins the transaction and takes the write lock
RaceInsert(p) ==
    /\ proc[p].pc = "counted"
    /\ ~WriteLocked
    /\ Len(disk.files) < MaxFiles
    /\ proc' = [proc EXCEPT ![p].pc = "inserted"]
    /\ UNCHANGED << dbfile, disk, connection, txn, exported, adds, clean, last,
                   blobs, source >>

\* the header insert while another process holds the write lock:
\* sqlite3.OperationalError (database is locked) once the timeout has passed
RaceLocked(p) ==
    /\ proc[p].pc = "counted"
    /\ WriteLocked
    /\ proc' = [proc EXCEPT ![p] = Idle]
    /\ last' = [op |-> "add", project |-> proc[p].project,
                filename |-> proc[p].doc.filename, ok |-> FALSE]
    /\ UNCHANGED << dbfile, disk, connection, txn, exported, adds, clean,
                   blobs, source >>

\* the loop raises KeyError: the process ends and its transaction is lost
RaceRaise(p) ==
    /\ proc[p].pc = "inserted"
    /\ Inserted(proc[p].doc.sbom_data) < Len(proc[p].doc.sbom_data)
    /\ proc' = [proc EXCEPT ![p] = Idle]
    /\ last' = [op |-> "add", project |-> proc[p].project,
                filename |-> proc[p].doc.filename, ok |-> FALSE]
    /\ UNCHANGED << dbfile, disk, connection, txn, exported, adds, clean,
                   blobs, source >>

\* the rows, the UPDATE of record_count, commit and db_close
RaceCommit(p) ==
    LET doc    == proc[p].doc
        header == RaceHeader(disk.files, doc, proc[p].project, proc[p].count)
        n      == Inserted(doc.sbom_data)
        rows   == [i \in 1..n |-> NewDataRow(header.file_id, doc.sbom_data[i])]
    IN  /\ proc[p].pc = "inserted"
        /\ n = Len(doc.sbom_data)
        /\ disk' = [disk EXCEPT
                      !.files = UpdateCount(Append(@, header), header.file_id, n),
                      !.data = @ \o rows]
        /\ txn' = disk'
        /\ proc' = [proc EXCEPT ![p].pc = "committed"]
        /\ UNCHANGED << dbfile, connection, exported, adds, clean, last,
                   blobs, source >>

\* audit_record("add") and return file_version[0]+1
RaceReturn(p) ==
    /\ proc[p].pc = "committed"
    /\ ~WriteLocked
    /\ Len(disk.audit) < MaxAudit
    /\ disk' = AuditRecord(disk, "add")
    /\ txn' = disk'
    /\ proc' = [proc EXCEPT ![p] = Idle]
    /\ last' = [op |-> "add", project |-> proc[p].project,
                filename |-> proc[p].doc.filename, ok |-> TRUE,
                result |-> proc[p].count + 1]
    /\ UNCHANGED << dbfile, connection, exported, adds, clean, blobs, source >>

\* initialise_database() while no add_file is under way
RaceInitialise ==
    /\ \A p \in Procs : proc[p].pc = "idle"
    /\ Initialise

\* the store with concurrent ingests
NextRace ==
    \/ RaceInitialise
    \/ \E p \in Procs, doc \in Docs, project \in Projects : RaceCount(p, doc, project)
    \/ \E p \in Procs : RaceInsert(p)
    \/ \E p \in Procs : RaceLocked(p)
    \/ \E p \in Procs : RaceRaise(p)
    \/ \E p \in Procs : RaceCommit(p)
    \/ \E p \in Procs : RaceReturn(p)

SpecRace == Init /\ [][NextRace]_vars

\* ------------------------------------------------------------------------
\* Documents and their normalizers (sbom_manager/input.py)
\*
\* Text is a sequence of tokens: a token is one character (a space, a
\* newline, a separator, a letter or digit) or a word without separators
\* that the code only compares or copies (a tag, a license identifier).
\* A line is the text readlines() returns for it, its newline included.
\* ------------------------------------------------------------------------
\* largest number of lines of a tag-value or delimited document
MaxLines == 4
\* largest number of components of a JSON or XML document
MaxComponents == 2

Whitespace == {" ", "\n"}

\* str.lstrip(), str.rstrip() and str.strip()
RECURSIVE LStrip(_)
LStrip(s) ==
    IF s # << >> /\ Head(s) \in Whitespace THEN LStrip(Tail(s)) ELSE s

RECURSIVE RStrip(_)
RStrip(s) ==
    IF s # << >> /\ s[Len(s)] \in Whitespace THEN RStrip(SubSeq(s, 1, Len(s) - 1)) ELSE s

Strip(s) == RStrip(LStrip(s))

\* str.split(sep): the pieces between the occurrences of sep
RECURSIVE Split(_, _)
Split(s, sep) ==
    IF \A i \in DOMAIN s : s[i] # sep THEN << s >>
    ELSE LET i == CHOOSE k \in DOMAIN s : s[k] = sep /\ \A j \in 1..(k - 1) : s[j] # sep
         IN  << SubSeq(s, 1, i - 1) >> \o Split(SubSeq(s, i + 1, Len(s)), sep)

\* the string of a text that holds at most one word (a license identifier)
Word(s) == IF s = << >> THEN "" ELSE s[1]

\* the outcome of a normalizer: the records it returns, or an exception
Returns(modules) == [raised |-> FALSE, modules |-> modules]
Raise == [raised |-> TRUE, modules |-> << >>]

\* process_spdx_file: the values of its local variables before the loop
SpdxStart ==
    [modules |-> << >>, product |-> << >>, version |-> << >>, license |-> "",
     raised |-> FALSE]

\* process_spdx_file: modules after the append guarded by
\* product != "" and version != ""
SpdxAppend(st) ==
    IF st.product # << >> /\ st.version # << >>
    THEN Append(st.modules, [vendor |-> << >>, product |-> st.product,
                             version |-> st.version, license |-> st.license])
    ELSE st.modules

\* process_spdx_file: one pass of the loop; line_elements[1] raises
\* IndexError on a tag line without a colon
SpdxLine(st, line) ==
    LET line_elements == Split(line, ":")
        tag           == line_elements[1]
    IN  IF st.raised THEN st
        ELSE IF /\ tag \in { << "PackageName" >>, << "PackageVersion" >>,
                             << "PackageLicenseConcluded" >> }
                /\ Len(line_elements) < 2
        THEN [st EXCEPT !.raised = TRUE]
        ELSE IF tag = << "PackageName" >>
        THEN [st EXCEPT !.modules = SpdxAppend(st),
                        !.product = Strip(line_elements[2]),
                        !.version = << >>,
                        !.license = ""]
        ELSE IF tag = << "PackageVersion" >>
        THEN [st EXCEPT !.version =
                 Split(Split(Strip(line_elements[2]), "-")[1], "+")[1]]
        ELSE IF tag = << "PackageLicenseConcluded" >>
        THEN [st EXCEPT !.license = Word(Strip(line_elements[2]))]
        ELSE st

\* process_spdx_file: the loop over the lines
RECURSIVE SpdxLoop(_, _)
SpdxLoop(st, lines) ==
    IF lines = << >> THEN st ELSE SpdxLoop(SpdxLine(st, Head(lines)), Tail(lines))

\* process_spdx_file without the append after the loop
ProcessSpdxFileNoFlush(lines) ==
    LET st == SpdxLoop(SpdxStart, lines)
    IN  IF st.raised THEN Raise ELSE Returns(st.modules)

\* process_spdx_file(filename)
ProcessSpdxFile(lines) ==
    LET st == SpdxLoop(SpdxStart, lines)
    IN  IF st.raised THEN Raise ELSE Returns(SpdxAppend(st))

\* a component of a JSON or XML document has the fields of its DOMAIN
Has(d, field) == field \in DOMAIN d

\* process_spdx_json_file: d["name"] and d["versionInfo"] raise KeyError
SpdxJsonRaises(d) == ~Has(d, "name") \/ ~Has(d, "versionInfo")

\* process_spdx_json_file: the record of one package
SpdxJsonModule(d) ==
    [vendor |-> << >>, product |-> d.name, version |-> d.versionInfo,
     license |-> IF Has(d, "licenseConcluded") THEN d.licenseConcluded ELSE ""]

\* process_spdx_json_file(filename)
ProcessSpdxJsonFile(packages) ==
    IF \E i \in DOMAIN packages : SpdxJsonRaises(packages[i]) THEN Raise
    ELSE Returns([i \in DOMAIN packages |-> SpdxJsonModule(packages[i])])

\* process_cyclonedx_file: the component types that are read
XmlTypes == {"library", "application", "operating-system"}

\* process_cyclonedx_file: component.attrib["type"] raises KeyError, and
\* .text of an element that find() did not find raises AttributeError
CyclonedxRaises(component) ==
    \/ ~Has(component, "type")
    \/ /\ component.type \in XmlTypes
       /\ ~Has(component, "name") \/ ~Has(component, "version")

\* process_cyclonedx_file: whether the component is appended; the text of
\* an empty element is None, here the empty text
CyclonedxKeeps(component) ==
    /\ component.type \in XmlTypes
    /\ component.name # << >>
    /\ component.version # << >>

\* process_cyclonedx_file: the record of one component
CyclonedxModule(component) ==
    [vendor |-> << >>, product |-> component.name, version |-> component.version,
     license |-> IF Has(component, "licenses") /\ Has(component.licenses, "expression")
                 THEN component.licenses.expression ELSE ""]

\* process_cyclonedx_file(filename)
ProcessCyclonedxFile(components) ==
    IF \E i \in DOMAIN components : CyclonedxRaises(components[i]) THEN Raise
    ELSE LET kept == SelectSeq(components, CyclonedxKeeps)
         IN  Returns([i \in DOMAIN kept |-> CyclonedxModule(kept[i])])

\* process_cyclonedx_json_file: the component types that are read
JsonTypes == {"application", "library"}

\* process_cyclonedx_json_file: d["type"], d["name"] and d["version"]
\* raise KeyError
CyclonedxJsonRaises(d) ==
    \/ ~Has(d, "type")
    \/ /\ d.type \in JsonTypes
       /\ ~Has(d, "name") \/ ~Has(d, "version")

\* process_cyclonedx_json_file: the license of one component
CyclonedxJsonLicense(d) ==
    LET found == IF Has(d, "licenses") /\ Len(d.licenses) > 0 THEN << d.licenses[1] >>
                 ELSE IF Has(d, "evidence") /\ Len(d.evidence.licenses) > 0
                 THEN << d.evidence.licenses[1] >>
                 ELSE << >>
    IN  IF found = << >> THEN ""
        ELSE LET license_data == found[1]
             IN  IF Has(license_data, "license")
                 THEN IF Has(license_data.license, "id") THEN license_data.license.id
                      ELSE IF Has(license_data.license, "name")
                      THEN license_data.license.name
                      ELSE ""
                 ELSE IF Has(license_data, "expression") THEN license_data.expression
                 ELSE ""

\* process_cyclonedx_json_file(filename)
ProcessCyclonedxJsonFile(components) ==
    IF \E i \in DOMAIN components : CyclonedxJsonRaises(components[i]) THEN Raise
    ELSE LET read(d) == d.type \in JsonTypes
             kept    == SelectSeq(components, read)
         IN  Returns([i \in DOMAIN kept |->
                        [vendor |-> << >>, product |-> kept[i].name,
                         version |-> kept[i].version,
                         license |-> CyclonedxJsonLicense(kept[i])]])

\* process_csv_file: whether a line adds a record
CsvKeeps(line) ==
    /\ line[1] # "#"
    /\ Len(Split(Strip(line), ",")) = 3

\* process_csv_file: the record of one line
CsvModule(line) ==
    LET line_elements == Split(Strip(line), ",")
    IN  [vendor  |-> Strip(line_elements[1]),
         product |-> Strip(line_elements[2]),
         version |-> Strip(line_elements[3]),
         licnese |-> ""]

\* process_csv_file(filename)
ProcessCsvFile(lines) ==
    LET kept == SelectSeq(lines, CsvKeeps)
    IN  Returns([i \in DOMAIN kept |-> CsvModule(kept[i])])

\* the keys of self.sbom_process
Normalizers == {"spdx", "spdx_json", "cyclonedx", "cyclonedx_json", "csv", "dir"}

\* self.sbom_process[self.sbom_type](filename) for the formats of the model
Normalize(sbom_type, content) ==
    IF sbom_type = "spdx" THEN ProcessSpdxFile(content)
    ELSE IF sbom_type = "spdx_json" THEN ProcessSpdxJsonFile(content)
    ELSE IF sbom_type = "cyclonedx" THEN ProcessCyclonedxFile(content)
    ELSE IF sbom_type = "cyclonedx_json" THEN ProcessCyclonedxJsonFile(content)
    ELSE ProcessCsvFile(content)

\* ------------------------------------------------------------------------
\* The generator of tag-value documents (sbom_manager/generate.py)
\* ------------------------------------------------------------------------
\* generateTag: the document element tag + ": " + value
GenerateTag(tag, value) == tag \o << ":", " " >> \o value

\* str.replace(" ", "-")
Replace(s) == [i \in DOMAIN s |-> IF s[i] = " " THEN "-" ELSE s[i]]

\* the constant SPDX_PROJECT_ID
SpdxProjectId == << "SPDXRef", "-", "DOCUMENT" >>

\* generateDocumentHeader: the elements it appends; the uuid, the time and
\* the version of the tool are words
GenerateDocumentHeader(project_name) ==
    << GenerateTag(<< "SPDXVersion" >>, << "SPDX", "-", "2.2" >>),
       GenerateTag(<< "DataLicense" >>, << "CC0", "-", "1.0" >>),
       GenerateTag(<< "SPDXID" >>, SpdxProjectId),
       GenerateTag(<< "DocumentName" >>, Replace(project_name)),
       GenerateTag(<< "DocumentNamespace" >>,
                   << "http", ":", "//spdx.org/spdxdocs/" >> \o Replace(project_name)
                      \o << "-", "uuid4" >>),
       GenerateTag(<< "LicenseListVersion" >>, << "3.9" >>),
       GenerateTag(<< "Creator", ":", " ", "Tool" >>, << "SPDX_Generator", "-", "VERSION" >>),
       GenerateTag(<< "Created" >>, << "now" >>),
       GenerateTag(<< "CreatorComment" >>,
                   << "<text>This document has been automatically generated.</text>" >>) >>

\* generatePackageDetails and the generateRelationship it calls: the
\* elements appended for one package
GeneratePackageDetails(package, id, version, parent_id) ==
    LET package_id == << "SPDXRef", "-", "Package", "-", Digits[id + 1] >>
    IN  << GenerateTag(<< "\n", "PackageName" >>, package),
           GenerateTag(<< "SPDXID" >>, package_id),
           GenerateTag(<< "PackageVersion" >>, version),
           GenerateTag(<< "PackageDownloadLocation" >>, << "NONE" >>),
           GenerateTag(<< "FilesAnalyzed" >>, << "false" >>),
           GenerateTag(<< "PackageLicenseConcluded" >>, << "NOASSERTION" >>),
           GenerateTag(<< "PackageLicenseDeclared" >>, << "NOASSERTION" >>),
           GenerateTag(<< "PackageCopyrightText" >>, << "NOASSERTION" >>),
           GenerateTag(<< "\n", "Relationship" >>,
                       parent_id \o << " ", "CONTAINS", " " >> \o package_id) >>

\* generate_spdx: the loop over the packages, id counting from 1
RECURSIVE GeneratePackages(_, _, _)
GeneratePackages(packages, id, project_id) ==
    IF packages = << >> THEN << >>
    ELSE GeneratePackageDetails(Head(packages).product, id, Head(packages).version,
                                project_id)
         \o GeneratePackages(Tail(packages), id + 1, project_id)

\* generate_spdx(project_name, packages) followed by get_spdx()
GenerateSpdx(project_name, packages) ==
    GenerateDocumentHeader(project_name)
    \o << << "\n", "\n", "#####", " ", "Package" >> >>
    \o GeneratePackages(packages, 1, SpdxProjectId)

\* show_spdx: every element printed, a newline after each
RECURSIVE ShowSpdx(_)
ShowSpdx(doc) ==
    IF doc = << >> THEN << >> ELSE Head(doc) \o << "\n" >> \o ShowSpdx(Tail(doc))

\* readlines() of a text: the lines, each with its newline
RECURSIVE ReadLines(_)
ReadLines(text) ==
    IF text = << >> THEN << >>
    ELSE IF \A i \in DOMAIN text : text[i] # "\n" THEN << text >>
    ELSE LET i == CHOOSE k \in DOMAIN text : text[k] = "\n" /\ \A j \in 1..(k - 1) : text[j] # "\n"
         IN  << SubSeq(text, 1, i) >> \o ReadLines(SubSeq(text, i + 1, Len(text)))

\* ------------------------------------------------------------------------
\* The documents the normalizers are applied to
\* ------------------------------------------------------------------------
\* lines of tag-value documents
TagLines ==
    { << "PackageName", ":", " ", "a", "\n" >>,
      << "PackageName", ":", " ", "b", "\n" >>,
      << "PackageVersion", ":", " ", "1", "\n" >>,
      << "PackageVersion", ":", " ", "-", "1", "\n" >>,
      << "PackageVersion", ":", " ", "2", " ", "-", "b", "\n" >>,
      << "PackageLicenseConcluded", ":", " ", "MIT", "\n" >>,
      << "\n" >> }

\* lines of delimited documents
CsvLines ==
    { << "a", ",", "b", ",", "1", "\n" >>,
      << " ", "a", ",", " ", "b", ",", "2", " ", "\n" >>,
      << "#", "a", ",", "b", ",", "1", "\n" >>,
      << "a", ",", "b", "\n" >>,
      << "\n" >> }

\* the sequences of at most n elements of a set
SeqsUpTo(S, n) == UNION { [1..k -> S] : k \in 0..n }

\* a text file with or without the newline of its last line
WithAndWithoutNewline(lines) ==
    IF lines = << >> THEN { lines }
    ELSE { lines,
           [lines EXCEPT ![Len(lines)] = SubSeq(@, 1, Len(@) - 1)] }

TextFiles(S) ==
    { f \in UNION { WithAndWithoutNewline(lines) : lines \in SeqsUpTo(S, MaxLines) } :
        f = << >> \/ f[Len(f)] # << >> }

\* packages of SPDX JSON documents
SpdxJsonPackages ==
    { [name |-> << "a" >>, versionInfo |-> << "1" >>, licenseConcluded |-> "MIT"],
      [name |-> << "b" >>, versionInfo |-> << "2" >>],
      [name |-> << "b" >>],
      [versionInfo |-> << "1" >>] }

\* components of CycloneDX XML documents
CyclonedxComponents ==
    { [type |-> "library", name |-> << "a" >>, version |-> << "1" >>,
       licenses |-> [expression |-> "MIT"]],
      [type |-> "application", name |-> << "b" >>, version |-> << "2" >>],
      [type |-> "file", name |-> << "b" >>],
      [type |-> "library", name |-> << >>, version |-> << "1" >>],
      [type |-> "library", version |-> << "1" >>],
      [type |-> "library", name |-> << "b" >>],
      [name |-> << "b" >>, version |-> << "1" >>] }

\* components of CycloneDX JSON documents
CyclonedxJsonComponents ==
    { [type |-> "library", name |-> << "a" >>, version |-> << "1" >>,
       licenses |-> << [license |-> [id |-> "MIT"]] >>],
      [type |-> "application", name |-> << "b" >>, version |-> << "2" >>,
       licenses |-> << >>, evidence |-> [licenses |-> << [expression |-> "X"] >>]],
      [type |-> "file"],
      [type |-> "library", version |-> << "1" >>],
      [type |-> "library", name |-> << "b" >>],
      [name |-> << "b" >>, version |-> << "1" >>] }

\* a document of a format
Document(sbom_type, content) ==
    [exists |-> TRUE, sbom_type |-> sbom_type, content |-> content]

Sources ==
    { Document("spdx", c) : c \in TextFiles(TagLines) }
    \cup { Document("csv", c) : c \in TextFiles(CsvLines) }
    \cup { Document("spdx_json", c) : c \in SeqsUpTo(SpdxJsonPackages, MaxComponents) }
    \cup { Document("cyclonedx", c) : c \in SeqsUpTo(CyclonedxComponents, MaxComponents) }
    \cup { Document("cyclonedx_json", c) :
              c \in SeqsUpTo(CyclonedxJsonComponents, MaxComponents) }

\* the state before a normalizer is applied to a document
InitNorm ==
    /\ dbfile = "absent"
    /\ disk = NoTables
    /\ connection = FALSE
    /\ txn = NoTables
    /\ exported = NoExport
    /\ adds = [p \in Projects |-> 0]
    /\ clean = TRUE
    /\ last = [op |-> "new", ok |-> TRUE]
    /\ proc = [p \in Procs |-> Idle]
    /\ blobs = {}
    /\ source \in Sources

\* process_file(filename) on a file that exists
ProcessFile ==
    LET out == Normalize(source.sbom_type, source.content)
    IN  /\ source.exists
        /\ last' = [op |-> "process_file", ok |-> ~out.raised, result |-> out.modules]
        /\ UNCHANGED << dbfile, disk, connection, txn, exported, adds, clean, proc,
                        blobs, source >>

\* a tag-value document normalized, generated from its records, shown and
\* normalized again
RoundTrip ==
    LET out    == ProcessSpdxFile(source.content)
        shown  == ShowSpdx(GenerateSpdx(<< "P" >>, out.modules))
        again  == ProcessSpdxFile(ReadLines(shown))
    IN  /\ source.exists
        /\ source.sbom_type = "spdx"
        /\ ~out.raised
        /\ last' = [op |-> "round_trip", ok |-> ~again.raised,
                    result |-> out.modules, again |-> again.modules]
        /\ UNCHANGED << dbfile, disk, connection, txn, exported, adds, clean, proc,
                        blobs, source >>

\* the normalizers and the generator
NextNorm ==
    \/ ProcessFile
    \/ RoundTrip

SpecNorm == InitNorm /\ [][NextNorm]_vars

\* ------------------------------------------------------------------------
\* The command line: one invocation of main is one process
\* ------------------------------------------------------------------------
\* the choices of --sbom-type
TypeChoices == {"spdx", "cyclonedx", "csv", "dir"}

\* the files the --add option names: whether os.path.exists() holds for the
\* name, whether open() succeeds, and what the file holds
SourceFiles ==
    { [filename |-> "a.spdx", exists |-> TRUE, readable |-> TRUE,
       content |-> << << "PackageName", ":", " ", "a", "\n" >>,
                      << "PackageVersion", ":", " ", "1", "\n" >> >>],
      [filename |-> "b.json", exists |-> TRUE, readable |-> TRUE,
       content |-> << [name |-> << "a" >>, versionInfo |-> << "1" >>],
                      [name |-> << "b" >>] >>],
      [filename |-> "c.csv", exists |-> TRUE, readable |-> TRUE,
       content |-> << << "a", ",", "b", ",", "1", "\n" >> >>],
      [filename |-> "m.spdx", exists |-> FALSE, readable |-> FALSE,
       content |-> << >>],
      [filename |-> "u.spdx", exists |-> TRUE, readable |-> FALSE,
       content |-> << >>] }

SourceFile(filename) == CHOOSE f \in SourceFiles : f.filename = filename

\* a project name with a path separator: its directory in the file store
\* lies inside the directory of project ProjP
ProjNested == << "P", "/", "p" >>

\* args["add_file"].endswith(".json")
EndsWithJson(filename) == filename \in {"b.json"}

\* the defaults of the arguments
Defaults ==
    [add_file |-> "", sbom_type |-> "", module |-> << >>, list |-> "",
     description |-> "", project |-> NoProject, initialise |-> FALSE,
     scan |-> FALSE, import |-> FALSE, export |-> FALSE, history |-> FALSE]

\* the format a file is declared with: the one it is written in, one that
\* is not among the choices, or none
DeclaredTypes(filename) ==
    { IF filename = "c.csv" THEN "csv" ELSE "spdx", "foo", "" }

\* the command lines: one request each, and three that import as well
Requests ==
    { [Defaults EXCEPT !.initialise = TRUE],
      [Defaults EXCEPT !.export = TRUE],
      [Defaults EXCEPT !.scan = TRUE, !.project = ProjP],
      [Defaults EXCEPT !.module = << "a" >>],
      [Defaults EXCEPT !.list = "all"],
      [Defaults EXCEPT !.list = "sbom", !.project = ProjP, !.history = TRUE],
      [Defaults EXCEPT !.add_file = "a.spdx", !.sbom_type = "spdx",
                       !.project = ProjNested],
      Defaults }
    \cup UNION { { [Defaults EXCEPT !.add_file = f.filename, !.sbom_type = t,
                                    !.project = ProjP] :
                     t \in DeclaredTypes(f.filename) } :
                   f \in SourceFiles }

Argv ==
    Requests
    \cup { [r EXCEPT !.import = TRUE] :
             r \in { Defaults, [Defaults EXCEPT !.initialise = TRUE],
                     [Defaults EXCEPT !.module = << "a" >>] } }

\* check_db_exists(): a file of more than 100 bytes
CheckDbExists(f) == f = "tables"

\* what an invocation has done so far: the files it works on and how it ends.
\* "done": returns 0; "not_setup": logs the "Database not setup" error and
\* returns 0; "invalid": logs what is missing and returns -1; "usage":
\* argparse exits with status 2; "raised": leaves main with an exception
Started ==
    [dbfile |-> dbfile, disk |-> disk, exported |-> exported, blobs |-> blobs,
     adds |-> adds, clean |-> clean, outcome |-> "done"]

\* sbom_db.copy_db(filename=args["import"], export=False), if the file exists
CliImport(s, args) ==
    IF ~(args.import /\ s.exported.present) THEN s
    ELSE IF s.dbfile # "tables"
         THEN \* audit_record raises "no such table" on the file connect() made
              [s EXCEPT !.dbfile = Connect(@), !.outcome = "raised"]
         ELSE [s EXCEPT !.disk = s.exported.tables,
                        !.clean = FALSE,
                        !.adds = [p \in Projects |-> 0]]

\* the input validation: returns -1 for --add without type or project
Invalid(args) ==
    args.add_file # "" /\ (args.sbom_type = "" \/ args.project = NoProject)

\* the type the normalizer is chosen by
DetectedType(args) ==
    IF EndsWithJson(args.add_file) /\ args.sbom_type \in {"spdx", "cyclonedx"}
    THEN args.sbom_type \o "_json"
    ELSE args.sbom_type

\* sbom_db.initialise_database() and sbom_store.initialise_store()
CliInitialise(s) ==
    [s EXCEPT !.dbfile = "tables",
              !.disk = AuditRecord(CreateTables(@), "initialise"),
              !.blobs = {},
              !.adds = [p \in Projects |-> 0],
              !.clean = TRUE]

\* sbom_db.copy_db(filename=args["export"], export=True)
CliExport(s) ==
    LET tables == AuditRecord(s.disk, "Export database")
    IN  [s EXCEPT !.disk = tables,
                  !.exported = [present |-> TRUE, tables |-> tables]]

\* os.path.isdir(project_location): a project directory is made by the
\* first store() for the project and removed by initialise_store() only
IsDir(files, project) == \E b \in files : b[1] = project

\* the directory a project directory is made in, << >> for the location of
\* the file store itself
Dirname(project) ==
    IF \E i \in DOMAIN project : project[i] = "/"
    THEN SubSeq(project, 1,
                (CHOOSE i \in DOMAIN project :
                    /\ project[i] = "/"
                    /\ \A j \in DOMAIN project : project[j] = "/" => j <= i) - 1)
    ELSE << >>

\* os.mkdir(project_location) raises FileNotFoundError: the directory is
\* missing and so is the one it would be made in
MkdirRaises(files, project) ==
    /\ ~IsDir(files, project)
    /\ Dirname(project) # << >>
    /\ ~IsDir(files, Dirname(project))

\* sbom_store.store(filename, project, version=version), when it does not
\* raise
Store(files, filename, project, version) ==
    files \cup { << project, version, filename >> }

\* sbom_input.process_file, sbom_db.add_file and sbom_store.store
CliAdd(s, args) ==
    LET file   == SourceFile(args.add_file)
        out    == Normalize(DetectedType(args), file.content)
        desc   == IF args.description = "" THEN "Not specified"
                  ELSE args.description
        doc    == [filename |-> args.add_file, description |-> desc,
                   sbom_type |-> args.sbom_type, sbom_data |-> out.modules]
        header == NewHeader(s.disk.files, doc, args.project)
        n      == Inserted(doc.sbom_data)
        rows   == [i \in 1..n |-> NewDataRow(header.file_id, doc.sbom_data[i])]
    IN  IF ~file.exists
        THEN s    \* process_file returns None: nothing is added or stored
        ELSE IF ~file.readable \/ out.raised
        THEN [s EXCEPT !.outcome = "raised"]
        ELSE IF n < Len(doc.sbom_data)
        THEN \* KeyError in add_file: the process ends without a commit
             [s EXCEPT !.outcome = "raised"]
        ELSE [s EXCEPT
                !.disk = AuditRecord(
                           [@ EXCEPT
                              !.files = UpdateCount(Append(@, header),
                                                    header.file_id, n),
                              !.data = @ \o rows],
                           "add"),
                !.adds = IF s.clean /\ args.project \in Projects
                         THEN [@ EXCEPT ![args.project] = @ + 1]
                         ELSE @,
                \* store() runs after add_file has committed and returned
                !.blobs = IF MkdirRaises(@, args.project) THEN @
                          ELSE Store(@, args.add_file, args.project,
                                     header.file_version),
                !.outcome = IF MkdirRaises(s.blobs, args.project)
                            THEN "raised" ELSE @]

\* sbom_db.find_module(args["module"], args["project"], args["history"])
CliFind(s, args) == [s EXCEPT !.disk = AuditRecord(@, "find")]

\* sbom_db.list_entries(args["list"], args["project"], args["history"])
CliList(s, args) ==
    IF Parses(args.list,
              ListClauses(args.list, args.project, args.history, NoVersion))
    THEN [s EXCEPT !.disk = AuditRecord(@, "list")]
    ELSE [s EXCEPT !.outcome = "raised"]

\* the chain of requests main chooses from; the scan of the stored files of
\* a project and "nothing to do" change nothing
Dispatch(s, args) ==
    IF args.initialise THEN CliInitialise(s)
    ELSE IF args.export /\ CheckDbExists(s.dbfile) THEN CliExport(s)
    ELSE IF ~CheckDbExists(s.dbfile) THEN [s EXCEPT !.outcome = "not_setup"]
    ELSE IF args.add_file # "" THEN CliAdd(s, args)
    ELSE IF args.module # << >> THEN CliFind(s, args)
    ELSE IF args.list # "" THEN CliList(s, args)
    ELSE s

\* main(argv), from parse_args to its return or the exception it ends with
Run(s, args) ==
    IF args.sbom_type \notin TypeChoices \cup {""}
    THEN [s EXCEPT !.outcome = "usage"]
    ELSE LET imported == CliImport(s, args)
         IN  IF imported.outcome # "done" THEN imported
             ELSE IF Invalid(args) THEN [imported EXCEPT !.outcome = "invalid"]
             ELSE Dispatch(imported, args)

\* one invocation of the command line, a process of its own: what it left
\* uncommitted is rolled back when it ends
Main(args) ==
    LET s == Run(Started, args)
    IN  /\ Len(s.disk.files) <= MaxFiles
        /\ Len(s.disk.audit) <= MaxAudit
        /\ dbfile' = s.dbfile
        /\ disk' = s.disk
        /\ txn' = Rollback(s.disk)
        /\ connection' = FALSE
        /\ exported' = s.exported
        /\ blobs' = s.blobs
        /\ adds' = s.adds
        /\ clean' = s.clean
        /\ last' = [op |-> "main", args |-> args, outcome |-> s.outcome]
        /\ UNCHANGED << proc, source >>

NextCli == \E args \in Argv : Main(args)

\* the file --import names when it was exported from a store that had just
\* been initialised
ExportOfNewStore ==
    [present |-> TRUE,
     tables |-> AuditRecord(AuditRecord(CreateTables(NoTables), "initialise"),
                            "Export database")]

\* no store yet; the file --import names may exist, brought from elsewhere
InitCli ==
    /\ dbfile = "absent"
    /\ disk = NoTables
    /\ connection = FALSE
    /\ txn = NoTables
    /\ exported \in {NoExport, ExportOfNewStore}
    /\ adds = [p \in Projects |-> 0]
    /\ clean = TRUE
    /\ last = [op |-> "new", ok |-> TRUE]
    /\ proc = [p \in Procs |-> Idle]
    /\ blobs = {}
    /\ source = NoSource

SpecCli == InitCli /\ [][NextCli]_vars

\* ------------------------------------------------------------------------
\* Properties
\* ------------------------------------------------------------------------
\* how often each element occurs in a sequence
SeqBag(s) ==
    [x \in {s[i] : i \in DOMAIN s} |-> Cardinality({i \in DOMAIN s : s[i] = x})]

\* the headers of a project, in the order of their insertion
HeadersOf(files, project) ==
    SelectSeq(files, LAMBDA f : f.project = project)

\* the data rows of one header, in the order of their insertion
DataOf(tables, file_id) ==
    SelectSeq(tables.data, LAMBDA d : d.file_id = file_id)

\* C1: under sequential use with no initialise or import in between, after
\* K add_file calls for a project have returned, the committed headers of
\* the project carry the versions 1..K in the order of insertion, and the
\* call that returned last returned its own number among them; the count of
\* one project does not depend on the adds of the other.
C1_VersionsCountSuccessfulAdds ==
    clean =>
        /\ \A p \in Projects :
              LET headers == HeadersOf(disk.files, p)
              IN  /\ Len(headers) = adds[p]
                  /\ \A k \in DOMAIN headers : headers[k].file_version = k
        /\ (last.op = "add" /\ last.ok) => last.result = adds[last.project]

\* C1: a state after two adds to one project and one to the other have returned
C1_Witness ==
    /\ last.op = "add" /\ last.ok
    /\ \E p \in Projects : adds[p] >= 1 /\ adds[last.project] >= 1 /\ p # last.project

\* C2: add_file is atomic. A header whose record_count was never written
\* is the header of a call that failed before its UPDATE; the store holds
\* no such header and no data row of one, whatever is called afterwards.
C2_AddFileAtomic ==
    /\ \A i \in DOMAIN disk.files : disk.files[i].record_count # Null
    /\ \A j \in DOMAIN disk.data :
          \E i \in DOMAIN disk.files :
              /\ disk.files[i].file_id = disk.data[j].file_id
              /\ disk.files[i].record_count # Null

\* C2: a call of add_file has failed after inserting its header and a row
C2_Witness ==
    /\ last.op = "add" /\ ~last.ok
    /\ connection
    /\ Len(txn.files) = Len(disk.files) + 1
    /\ Len(txn.data) > Len(disk.data)

\* the rows of the joined view of one project, optionally of one version
ViewOf(tables, project, version) ==
    SelectSeq(Joined(tables),
              LAMBDA r : /\ r.project = project
                         /\ version # NoVersion => r.file_version = version)

EntriesOfVersion(tables, contents, project, history, version) ==
    LET from == IF contents = "sbom" THEN tables.files ELSE Joined(tables)
        keep == SelectSeq(from,
                          LAMBDA r : /\ r.file_version = version
                                     /\ project # NoProject => r.project = project)
    IN  [i \in DOMAIN keep |-> ListColumns(keep[i], contents, history)]

\* C4: for every scope, project argument and history flag, list_entries
\* with version = v completes without error and returns exactly the
\* entries whose file_version is v (of the project, when one is given).
C4_ListVersion ==
    [][ (last'.op = "list" /\ last'.version # NoVersion /\ dbfile = "tables")
        => /\ last'.ok
           /\ SeqBag(last'.result) =
                 SeqBag(EntriesOfVersion(txn, last'.contents, last'.project,
                                         last'.history, last'.version))
      ]_vars

\* C4: a listing of one version that is not the latest has returned entries
C4_Witness ==
    /\ last.op = "list" /\ last.ok
    /\ last.version = 1
    /\ last.project = ProjP
    /\ Len(HeadersOf(disk.files, ProjP)) = 2
    /\ last.result # << >>

\* query occurs in str, letters compared without regard to case
Contains(str, query) ==
    \E i \in 0..(Len(str) - Len(query)) :
        \A k \in 1..Len(query) : LowerChar(str[i + k]) = LowerChar(query[k])

\* the joined rows find_module may return: of the project when one is
\* given, and without history of the highest version of their own project
Eligible(tables, project, history) ==
    SelectSeq(Joined(tables),
              LAMBDA r : /\ project # NoProject => r.project = project
                         /\ history \/ ~\E i \in DOMAIN tables.files :
                                           /\ tables.files[i].project = r.project
                                           /\ tables.files[i].file_version > r.file_version)

\* C5: find_module returns a data row if and only if its product contains
\* the search text as a case-insensitive substring, the characters of the
\* text taken literally, and the row passes the project and version filters.
C5_LiteralSubstring ==
    [][ (last'.op = "find" /\ last'.ok)
        => LET pass == SelectSeq(Eligible(txn, last'.project, last'.history),
                                 LAMBDA r : Contains(r.product, last'.module))
           IN  SeqBag(last'.result) =
                  SeqBag([i \in DOMAIN pass |-> FindColumns(pass[i], last'.history)])
      ]_vars

\* C5: a search for a text that holds a wildcard character has returned rows
C5_Witness ==
    /\ last.op = "find" /\ last.ok
    /\ last.module = << "_" >>
    /\ last.result # << >>

\* whether every element occurs in bag a at most as often as in bag b
SubBag(a, b) ==
    \A x \in DOMAIN a : x \in DOMAIN b /\ a[x] <= b[x]

LabelOf(op) ==
    IF op = "export" THEN "Export database"
    ELSE IF op = "import" THEN "Import database"
    ELSE op

\* C7: each successful call of initialise, add_file, find_module,
\* list_entries or copy appends exactly one audit entry with its label,
\* which is the last entry of the store's audit log when the call returns.
C7_AuditEntryPerCall ==
    [][ (last'.ok /\ last'.op \in {"initialise", "add", "find", "list", "export", "import"})
        => /\ disk'.audit # << >>
           /\ disk'.audit[Len(disk'.audit)] = LabelOf(last'.op)
           /\ last'.op # "initialise" => Len(disk'.audit) = Len(disk.audit) + 1
      ]_vars

\* C7: an import has returned
C7_Witness ==
    /\ last.op = "import" /\ last.ok

\* s is a prefix of t
IsPrefix(s, t) ==
    /\ Len(s) <= Len(t)
    /\ \A i \in DOMAIN s : s[i] = t[i]

\* C8 as stated: over every operation, initialise and import included, the
\* audit log before the operation is a prefix of the audit log after it.
C8_AuditAppendOnly ==
    [][ IsPrefix(disk.audit, disk'.audit) ]_vars

\* C8 amended: over add_file, find_module, list_entries and export the
\* audit log before the operation is a prefix of the log after it;
\* initialise leaves the single entry "initialise", and a successful
\* import leaves the log of the imported file.
C8_AuditAppendOnlyBetweenResets ==
    [][ IF last'.op = "initialise"
        THEN disk'.audit = << "initialise" >>
        ELSE IF last'.op = "import" /\ last'.ok
        THEN disk'.audit = exported.tables.audit
        ELSE IsPrefix(disk.audit, disk'.audit)
      ]_vars

\* C8: a query has just added a third or later entry to the log
C8_Witness ==
    /\ last.op \in {"find", "list"} /\ last.ok
    /\ Len(disk.audit) >= 3

\* C9: initialise leaves sbom_file and sbom_data empty and the audit log
\* with the entry "initialise", whatever the store held; the add_file
\* called next is assigned file_version 1.
C9_InitialiseEmpties ==
    [][ /\ last'.op = "initialise"
           => /\ dbfile' = "tables"
              /\ disk'.files = << >> /\ disk'.data = << >>
              /\ disk'.audit = << "initialise" >>
              /\ txn' = disk' /\ ~connection'
        /\ (last.op = "initialise" /\ last'.op = "add")
           => /\ txn'.files[Len(txn'.files)].file_version = 1
              /\ last'.ok => last'.result = 1
      ]_vars

\* C9: the first add after the initialise of a store that had been
\* exported with files in it
C9_Witness ==
    /\ last.op = "add" /\ last.ok /\ last.result = 1
    /\ disk.audit = << "initialise", "add" >>
    /\ exported.present
    /\ exported.tables.files # << >>

\* stored is supplied with every upper-case letter replaced by its
\* lower-case letter
IsLowerOf(stored, supplied) ==
    /\ Len(stored) = Len(supplied)
    /\ \A i \in DOMAIN stored :
          \/ /\ stored[i] = supplied[i]
             /\ \A j \in DOMAIN UpperChars : UpperChars[j] # supplied[i]
          \/ \E j \in DOMAIN UpperChars :
                UpperChars[j] = supplied[i] /\ LowerChars[j] = stored[i]

\* the document add_file was called with for a header
DocOf(header) == CHOOSE doc \in Docs : doc.filename = header.filename

\* C10: every data row written by add_file holds the lower-case form of the
\* vendor, product and version of the record supplied for it, and a license
\* that is not empty: the supplied license, or "NOASSERTION" for an empty one.
C10_RowsNormalised ==
    \A tables \in {txn, disk} :
        \A i \in DOMAIN tables.files :
            LET supplied == DocOf(tables.files[i]).sbom_data
                rows     == DataOf(tables, tables.files[i].file_id)
            IN  /\ Len(rows) <= Len(supplied)
                /\ \A k \in DOMAIN rows :
                      /\ IsLowerOf(rows[k].vendor, supplied[k].vendor)
                      /\ IsLowerOf(rows[k].product, supplied[k].product)
                      /\ IsLowerOf(rows[k].version, supplied[k].version)
                      /\ rows[k].license # ""
                      /\ rows[k].license = IF supplied[k].license = ""
                                           THEN "NOASSERTION"
                                           ELSE supplied[k].license

\* C10: rows are committed whose record had upper-case letters and whose
\* record had an empty license
C10_Witness ==
    /\ \E j \in DOMAIN disk.data : disk.data[j].product = << "o", "s" >>
    /\ \E j \in DOMAIN disk.data : disk.data[j].license = "NOASSERTION"

\* C11: add_file, find_module, list_entries and export leave every
\* committed file header and data row as it was: the committed headers and
\* rows before the call are the first headers and rows after it, a query
\* and an export commit no header and no row, and a returning add commits
\* its own header last, with its record_count written.
C11_HistoryPermanent ==
    [][ (last'.op \in {"add", "find", "list", "export"})
        => /\ IsPrefix(disk.files, disk'.files)
           /\ IsPrefix(disk.data, disk'.data)
           /\ last'.op # "add" => disk'.files = disk.files /\ disk'.data = disk.data
           /\ (last'.op = "add" /\ last'.ok)
              => /\ Len(disk'.files) > Len(disk.files)
                 /\ disk'.files[Len(disk'.files)].record_count # Null
                 /\ disk'.files[Len(disk'.files)].file_version = last'.result
      ]_vars

\* C11: an add has returned on a store that held a committed header with
\* another number of rows
C11_Witness ==
    /\ last.op = "add" /\ last.ok
    /\ Len(disk.files) = 2
    /\ disk.files[1].record_count # Null
    /\ disk.files[1].record_count # disk.files[2].record_count

\* the calls of a store object
Calls == {"initialise", "add", "find", "list", "export", "import"}

\* C19: after every call of the store object, returned or failed, the
\* object holds no open connection and no uncommitted write.
C19_ConnectionScoped ==
    last.op \in Calls => (~connection /\ txn = disk)

\* C19: a call has failed
C19_Witness ==
    /\ last.op \in Calls
    /\ ~last.ok

\* C20: the record_count of every committed file header is the number of
\* data rows of its file_id, which is the number of records of the add_file
\* call that created it.
C20_RecordCount ==
    \A i \in DOMAIN disk.files :
        LET rows == DataOf(disk, disk.files[i].file_id)
        IN  /\ disk.files[i].record_count = TextAffinity(Len(rows))
            /\ Len(rows) = Len(DocOf(disk.files[i]).sbom_data)

\* C20: a header of two records and a header of one record are committed
C20_Witness ==
    /\ \E i \in DOMAIN disk.files : disk.files[i].record_count = TextAffinity(2)
    /\ \E i \in DOMAIN disk.files : disk.files[i].record_count = TextAffinity(1)

\* C18: the file_version an add_file call commits is one more than the
\* count it read at its start, whatever other processes have committed for
\* the project since, and that is the value the call returns; two calls
\* that read the same count therefore commit the same file_version.
C18_VersionFromStaleCount ==
    [][ \A p \in Procs :
          /\ (proc[p].pc = "inserted" /\ proc'[p].pc = "committed")
             => /\ Len(disk'.files) = Len(disk.files) + 1
                /\ disk'.files[Len(disk'.files)].project = proc[p].project
                /\ disk'.files[Len(disk'.files)].file_version = proc[p].count + 1
          /\ (proc[p].pc = "committed" /\ proc'[p].pc = "idle")
             => last'.result = proc[p].count + 1
      ]_vars

\* C18: both processes have read the same count for one project and both
\* have committed: the project has two headers with the same file_version
C18_Witness ==
    /\ \A p \in Procs : proc[p].pc = "committed"
    /\ proc[1].project = proc[2].project
    /\ proc[1].count = proc[2].count
    /\ \E i, j \in DOMAIN disk.files :
          /\ i # j
          /\ disk.files[i].project = disk.files[j].project
          /\ disk.files[i].file_version = disk.files[j].file_version

\* the formats whose documents are lists of components
ComponentFormats == {"spdx_json", "cyclonedx", "cyclonedx_json"}

\* a component that lacks its name, version or type field
Malformed(sbom_type, d) ==
    IF sbom_type = "spdx_json"
    THEN ~Has(d, "name") \/ ~Has(d, "versionInfo")
    ELSE ~Has(d, "type") \/ ~Has(d, "name") \/ ~Has(d, "version")

\* C14: a document of components normalizes without raising, whether or not
\* a component lacks its name, version or type, and as many records are
\* returned as when the malformed components are left out of the document.
C14_MalformedSkipped ==
    [][ (last'.op = "process_file" /\ source.sbom_type \in ComponentFormats)
        => LET wellformed(d) == ~Malformed(source.sbom_type, d)
               rest          == SelectSeq(source.content, wellformed)
           IN  /\ last'.ok
               /\ last'.result = Normalize(source.sbom_type, rest).modules
      ]_vars

\* C14: a document with a malformed and a well-formed component has been
\* given to its normalizer
C14_Witness ==
    /\ last.op = "process_file"
    /\ source.sbom_type \in ComponentFormats
    /\ \E i, j \in DOMAIN source.content :
          /\ Malformed(source.sbom_type, source.content[i])
          /\ ~Malformed(source.sbom_type, source.content[j])

\* the tag of a line of a tag-value document, and the text after its colon
TagOf(line) == line[1]
ValueOf(line) == Strip(SubSeq(line, 3, Len(line)))

\* the longest prefix of a text without "-" and "+"
UpToSuffix(s) ==
    LET k == CHOOSE n \in 0..Len(s) :
                /\ \A i \in 1..n : s[i] \notin {"-", "+"}
                /\ n < Len(s) => s[n + 1] \in {"-", "+"}
    IN  SubSeq(s, 1, k)

\* the indices of the PackageName lines, in document order
NameLines(lines) ==
    SelectSeq([i \in DOMAIN lines |-> i], LAMBDA i : TagOf(lines[i]) = "PackageName")

\* the lines of the block that the PackageName line i opens
BlockOf(lines, i) ==
    { j \in DOMAIN lines :
        j > i /\ \A k \in (i + 1)..j : TagOf(lines[k]) # "PackageName" }

\* the value of the last line with a tag in a block, given that there is one
LastValue(lines, i, tag) ==
    LET tagged == { j \in BlockOf(lines, i) : TagOf(lines[j]) = tag }
    IN  ValueOf(lines[CHOOSE j \in tagged : \A k \in tagged : k <= j])

\* a block has a line with a tag
HasTag(lines, i, tag) == \E j \in BlockOf(lines, i) : TagOf(lines[j]) = tag

\* the record of a block
BlockRecord(lines, i) ==
    [vendor  |-> << >>,
     product |-> ValueOf(lines[i]),
     version |-> IF HasTag(lines, i, "PackageVersion")
                 THEN UpToSuffix(LastValue(lines, i, "PackageVersion")) ELSE << >>,
     license |-> IF HasTag(lines, i, "PackageLicenseConcluded")
                 THEN Word(LastValue(lines, i, "PackageLicenseConcluded")) ELSE ""]

\* C15 as stated: a tag-value document of N PackageName blocks, each with
\* a PackageVersion line, yields N records, the k-th with the name of the
\* k-th block, whatever the PackageVersion values and the end of the document.
C15_OneRecordPerBlock ==
    [][ (/\ last'.op = "process_file"
         /\ source.sbom_type = "spdx"
         /\ \A k \in DOMAIN NameLines(source.content) :
               HasTag(source.content, NameLines(source.content)[k], "PackageVersion"))
        => \A names \in {NameLines(source.content)} :
              /\ last'.ok
              /\ Len(last'.result) = Len(names)
              /\ \A k \in DOMAIN names :
                    last'.result[k].product = ValueOf(source.content[names[k]])
      ]_vars

\* C15 amended: tag-value normalization yields, in document order, one
\* record per PackageName block whose PackageVersion value, cut at its first
\* "-" or "+", is not empty, and no record for any other block, whether or
\* not the final block is followed by a blank line or any further line.
C15_OneRecordPerVersionedBlock ==
    [][ (last'.op = "process_file" /\ source.sbom_type = "spdx")
        => \A names \in {NameLines(source.content)} :
           \A kept \in {SelectSeq(names,
                           LAMBDA i : BlockRecord(source.content, i).version # << >>)} :
              /\ last'.ok
              /\ last'.result = [k \in DOMAIN kept |-> BlockRecord(source.content, kept[k])]
      ]_vars

\* C15: a document of two blocks has been normalized to two records, its
\* last line the PackageVersion line of the second block without a newline
C15_Witness ==
    /\ last.op = "process_file" /\ source.sbom_type = "spdx"
    /\ Len(NameLines(source.content)) = 2
    /\ Len(last.result) = 2
    /\ TagOf(source.content[Len(source.content)]) = "PackageVersion"
    /\ source.content[Len(source.content)][Len(source.content[Len(source.content)])] # "\n"

\* the (product, version) pairs of a sequence of records
Pairs(modules) == { << modules[i].product, modules[i].version >> : i \in DOMAIN modules }

\* C16: normalizing a tag-value document, generating a document from the
\* records and normalizing that document yields the (product, version)
\* pairs of the first normalization.
C16_RoundTrip ==
    [][ (last'.op = "round_trip")
        => /\ last'.ok
           /\ Pairs(last'.again) = Pairs(last'.result)
      ]_vars

\* C16: a document with records has gone through the round trip
C16_Witness ==
    /\ last.op = "round_trip"
    /\ last.result # << >>

\* C17: delimited-text normalization yields one record for each line that
\* is not a comment and has three columns, each with the four fields of the
\* canonical record and an empty license, which add_file accepts.
C17_CsvCanonical ==
    [][ (last'.op = "process_file" /\ source.sbom_type = "csv")
        => LET columns(line) ==
                  Cardinality({i \in DOMAIN line : line[i] = ","}) + 1
               counted == { i \in DOMAIN source.content :
                              /\ source.content[i][1] # "#"
                              /\ columns(source.content[i]) = 3 }
           IN  /\ last'.ok
               /\ Len(last'.result) = Cardinality(counted)
               /\ \A k \in DOMAIN last'.result :
                     /\ DOMAIN last'.result[k] = {"vendor", "product", "version", "license"}
                     /\ last'.result[k].license = ""
                     /\ ~Raises(last'.result[k])
      ]_vars

\* C17: a delimited document with a comment line has been normalized to records
C17_Witness ==
    /\ last.op = "process_file" /\ source.sbom_type = "csv"
    /\ last.result # << >>
    /\ \E i \in DOMAIN source.content : source.content[i][1] = "#"

\* ------------------------------------------------------------------------
\* C12: an ingest whose source file is missing or cannot be opened, or whose
\* declared format has no normalizer, ends in an outcome that reports an
\* error, and leaves the file headers, the data rows and the file store as
\* they were.
\* ------------------------------------------------------------------------
Reported(outcome) == outcome # "done"

IsIngest(args) ==
    args.add_file # "" /\ ~args.initialise /\ ~args.export /\ ~args.import

C12_IngestFailureReported ==
    [][ (last'.op = "main" /\ IsIngest(last'.args)
         /\ (\/ ~SourceFile(last'.args.add_file).exists
             \/ ~SourceFile(last'.args.add_file).readable
             \/ DetectedType(last'.args) \notin Normalizers))
        => /\ Reported(last'.outcome)
           /\ disk'.files = disk.files
           /\ disk'.data = disk.data
           /\ blobs' = blobs ]_vars

\* an initialised store that holds a file, after an ingest of a missing file
C12_Witness ==
    /\ last.op = "main"
    /\ IsIngest(last.args)
    /\ ~SourceFile(last.args.add_file).exists
    /\ last.args.sbom_type = "spdx"
    /\ CheckDbExists(dbfile)
    /\ disk.files # << >>
    /\ blobs # {}

\* ------------------------------------------------------------------------
\* C13: on a store that was never initialised, every invocation that
\* requests add, find, list, scan, export or import and not initialise
\* reports an error and leaves the store file, its tables and the file store
\* unchanged.
\* ------------------------------------------------------------------------
Requested(args) ==
    \/ args.add_file # ""
    \/ args.module # << >>
    \/ args.list # ""
    \/ args.scan
    \/ args.export
    \/ args.import

C13_NotInitialisedSurfaced ==
    [][ (last'.op = "main" /\ ~CheckDbExists(dbfile)
         /\ Requested(last'.args) /\ ~last'.args.initialise)
        => /\ Reported(last'.outcome)
           /\ dbfile' = dbfile
           /\ disk' = disk
           /\ blobs' = blobs ]_vars

\* an import into a store that was never initialised has ended
C13_Witness ==
    /\ last.op = "main"
    /\ last.args.import
    /\ ~last.args.initialise
    /\ last.outcome = "raised"
    /\ exported.present
    /\ dbfile = "empty"
    /\ disk = NoTables

\* ------------------------------------------------------------------------
\* C21: the rows find_module and list_entries return are sorted: by product
\* ascending, then project ascending, then file_version descending for
\* find_module and for the module scope of list_entries; by project
\* ascending, then file_version descending for the other scopes of
\* list_entries.  (The rows are a function of the tables, so the same
\* tables give the same sequence.)
\* ------------------------------------------------------------------------
\* the sort keys of a returned row, read from its columns; a column the
\* query does not select is given as a constant
SortKeys(call, row) ==
    LET scope == IF call.op = "find" THEN "all" ELSE call.contents
    IN  IF scope = "sbom"
        THEN [product |-> << >>,
              project |-> IF call.history THEN row[3] ELSE row[2],
              file_version |-> IF call.history THEN row[2] ELSE 0]
        ELSE IF scope = "module"
        THEN [product |-> IF call.history THEN row[3] ELSE row[2],
              project |-> row[1],
              file_version |-> IF call.history THEN row[2] ELSE 0]
        ELSE [product |-> IF call.history THEN row[5] ELSE row[4],
              project |-> IF call.history THEN row[3] ELSE row[2],
              file_version |-> IF call.history THEN row[2] ELSE 0]

\* row a may stand before row b
MayPrecede(call, a, b) ==
    LET byProduct == IF call.op = "find" \/ call.contents = "module"
                     THEN CmpText(a.product, b.product) ELSE 0
        byProject == CmpText(a.project, b.project)
    IN  \/ byProduct < 0
        \/ byProduct = 0 /\ byProject < 0
        \/ byProduct = 0 /\ byProject = 0 /\ a.file_version >= b.file_version

C21_ResultsOrdered ==
    [][ (last'.op \in {"find", "list"} /\ last'.ok)
        => \A i, j \in DOMAIN last'.result :
              i < j => MayPrecede(last', SortKeys(last', last'.result[i]),
                                  SortKeys(last', last'.result[j])) ]_vars

\* a search with history has returned rows of two versions, and the scan
\* met the rows in another order than the one returned
C21_Witness ==
    /\ last.op = "find"
    /\ last.ok
    /\ last.history
    /\ Len(last.result) >= 3
    /\ \E i, j \in DOMAIN last.result :
          /\ i < j
          /\ last.result[i][2] > last.result[j][2]
          /\ last.result[i][5] = last.result[j][5]
    /\ \E i, j \in DOMAIN last.result :
          /\ i < j
          /\ last.result[i][2] > last.result[j][2]
          /\ CmpText(last.result[i][5], last.result[j][5]) < 0

\* ------------------------------------------------------------------------
\* C22: an ingest keeps the file store and the headers in step: the file
\* store holds "<file_version>_<filename>" in the directory of a project if
\* and only if a committed header has that project, file_version and
\* filename.  (The file names of the model have no directory part.)
\* ------------------------------------------------------------------------
HeaderKeys(files) ==
    { << files[i].project, files[i].file_version, files[i].filename >> :
        i \in DOMAIN files }

C22_BlobsMatchHeaders ==
    [][ (last'.op = "main" /\ IsIngest(last'.args)
         /\ blobs = HeaderKeys(disk.files))
        => blobs' = HeaderKeys(disk'.files) ]_vars

\* an ingest has ended with a committed header that has no stored file
C22_Witness ==
    /\ last.op = "main"
    /\ IsIngest(last.args)
    /\ last.outcome = "raised"
    /\ \E k \in HeaderKeys(disk.files) : k \notin blobs

\* ------------------------------------------------------------------------
\* C23: in every state of the store, also after an add_file that raised and
\* the operations that follow it, every data row has the file_id of exactly
\* one header; and a header keeps its file_id, which is given to no other
\* header, for as long as the tables are not created anew or replaced by an
\* import.
\* ------------------------------------------------------------------------
\* every data row belongs to exactly one header
Referential(tables) ==
    \A d \in DOMAIN tables.data :
        Cardinality({ i \in DOMAIN tables.files :
                        tables.files[i].file_id = tables.data[d].file_id }) = 1

\* what makes a header the header of one ingest
Ingested(header) ==
    << header.file_id, header.filename, header.project, header.file_version,
       header.description, header.sbom_type >>

\* the headers of before are there, under their ids, and no two headers
\* share an id
IdsKept(before, after) ==
    /\ \A i \in DOMAIN before :
          \E j \in DOMAIN after : Ingested(after[j]) = Ingested(before[i])
    /\ \A i, j \in DOMAIN after :
          after[i].file_id = after[j].file_id => i = j

C23_ReferentialIntegrity ==
    [][ /\ Referential(disk')
        /\ Referential(txn')
        /\ last'.op \notin {"initialise", "import"}
              => IdsKept(disk.files, disk'.files) ]_vars

\* the header and a data row of an add_file that raised are committed, next
\* to those of an add_file that returned, and a query has run since
C23_Witness ==
    /\ last.op \in {"find", "list"}
    /\ last.ok
    /\ Len(disk.files) = 2
    /\ \E i \in DOMAIN disk.files :
          /\ disk.files[i].filename = "c.csv"
          /\ \E d \in DOMAIN disk.data :
                disk.data[d].file_id = disk.files[i].file_id
    /\ \E i \in DOMAIN disk.files :
          /\ disk.files[i].filename = "a.spdx"
          /\ \E d \in DOMAIN disk.data :
                disk.data[d].file_id = disk.files[i].file_id

====
